---- MODULE Spec2Model ----
(***************************************************************************)
(* FastAnsiParser::RenderAnsiText of src/dbg/console.h: an ANSI/SGR        *)
(* tokenizer driving a line-layout cursor.  Bytes are their ASCII codes,   *)
(* offsets into the buffer are 0-based as in the C++ (text[p] is           *)
(* text[p + 1] of the TLA+ sequence), a colour is the four bytes of its     *)
(* packed ImU32 value.                                                     *)
(***************************************************************************)
EXTENDS Integers, Sequences, FiniteSets, TLC

VARIABLES
    text,          \* the bytes of the caller's buffer; a NUL follows the last one
    isNull,        \* the caller passed text == nullptr
    lenArg,        \* the length argument of the call (0: "use strlen")
    length,        \* the local length after line 79
    ptr,           \* scan offset of the main loop
    segmentStart,  \* start of the pending literal segment
    currentColor,  \* Style: foreground colour
    currentBold,   \* Style: bold flag
    pos,           \* the pen
    segStart,      \* renderTextSegment: start of the pending sub-span
    current,       \* renderTextSegment: scan offset
    segEnd,        \* renderTextSegment: end of the segment
    ret,           \* where renderTextSegment returns to
    runs,          \* the drawList->AddText calls made so far, in order
    cursor,        \* ImGui's layout cursor (Get/SetCursorScreenPos)
    pc             \* position in RenderAnsiText

vars == << text, isNull, lenArg, length, ptr, segmentStart, currentColor,
           currentBold, pos, segStart, current, segEnd, ret, runs, cursor, pc >>

----------------------------------------------------------------------------
(* Bytes the code names. *)
NUL == 0
BS == 8
TAB == 9
LF == 10
CR == 13
ESC == 27
FirstPrintable == 32
Digit0 == 48
Digit9 == 57
SEMI == 59
LBRACKET == 91
LowerM == 109

(* What the GUI hands to the call: the cursor origin, the line height and *)
(* the advance width of one glyph of the fixed-width font.                *)
X0 == 5
Y0 == 7
LineHeight == 3
CharWidth == 2
TabColumns == 8

----------------------------------------------------------------------------
(* Bounds of the model. *)
MaxLen == 3
MaxParams == 2
MaxTokens == 3

----------------------------------------------------------------------------
(* ImU32 arithmetic.  A packed colour is kept as its four bytes, r the  *)
(* lowest and a the highest, so that every value stays a machine integer. *)
RECURSIVE BitOr(_, _)
BitOr(a, b) ==
    IF a = 0 THEN b
    ELSE IF b = 0 THEN a
    ELSE (IF (a % 2 = 1) \/ (b % 2 = 1) THEN 1 ELSE 0) + 2 * BitOr(a \div 2, b \div 2)

(* Byte k (0 the lowest) of the non-negative integer n. *)
ByteOf(n, k) ==
    IF k = 0 THEN n % 256
    ELSE IF k = 1 THEN (n \div 256) % 256
    ELSE IF k = 2 THEN (n \div 65536) % 256
    ELSE (n \div 16777216) % 256

(* ((ImU32)(A) << 24) | ((ImU32)(B) << 16) | ((ImU32)(G) << 8) | (ImU32)(R) *)
IM_COL32(r, g, b, a) ==
    [r |-> ByteOf(r, 0),
     g |-> BitOr(ByteOf(g, 0), ByteOf(r, 1)),
     b |-> BitOr(ByteOf(b, 0), BitOr(ByteOf(g, 1), ByteOf(r, 2))),
     a |-> BitOr(BitOr(ByteOf(a, 0), ByteOf(b, 1)), BitOr(ByteOf(g, 2), ByteOf(r, 3)))]

ANSI_COLORS ==
    << IM_COL32(40, 40, 40, 255),
       IM_COL32(220, 80, 80, 255),
       IM_COL32(80, 220, 80, 255),
       IM_COL32(220, 220, 80, 255),
       IM_COL32(80, 80, 220, 255),
       IM_COL32(220, 80, 220, 255),
       IM_COL32(80, 220, 220, 255),
       IM_COL32(220, 220, 220, 255),
       IM_COL32(160, 160, 160, 255),
       IM_COL32(255, 120, 120, 255),
       IM_COL32(120, 255, 120, 255),
       IM_COL32(255, 255, 120, 255),
       IM_COL32(120, 120, 255, 255),
       IM_COL32(255, 120, 255, 255),
       IM_COL32(120, 255, 255, 255),
       IM_COL32(255, 255, 255, 255) >>

(* ANSI_COLORS[i] with the C++ 0-based index. *)
Palette(i) == ANSI_COLORS[i + 1]

DEFAULT_COLOR == IM_COL32(255, 255, 255, 255)

(* The grayscale ramp starts one index late. *)
ansi256ToRgbLateGray(code) ==
    IF code < 16 THEN Palette(code)
    ELSE IF code <= 232 THEN
        LET c == code - 16
            r == (c \div 36) * 51
            g == ((c % 36) \div 6) * 51
            b == (c % 6) * 51
        IN  IM_COL32(r, g, b, 255)
    ELSE
        LET gray == 8 + (code - 232) * 10
        IN  IM_COL32(gray, gray, gray, 255)

ansi256ToRgb(code) ==
    IF code < 16 THEN Palette(code)
    ELSE IF code < 232 THEN
        LET c == code - 16
            r == (c \div 36) * 51
            g == ((c % 36) \div 6) * 51
            b == (c % 6) * 51
        IN  IM_COL32(r, g, b, 255)
    ELSE
        LET gray == 8 + (code - 232) * 10
        IN  IM_COL32(gray, gray, gray, 255)

----------------------------------------------------------------------------
(* Reading the buffer. *)
At(p) == text[p + 1]

IsDigit(c) == c >= Digit0 /\ c <= Digit9

(* A strlen that runs to the end of the buffer. *)
strlenToBufferEnd(s) == Len(s)

strlen(s) ==
    IF \E i \in 1..Len(s) : s[i] = NUL
    THEN (CHOOSE i \in 1..Len(s) : s[i] = NUL /\ \A j \in 1..(i - 1) : s[j] # NUL) - 1
    ELSE Len(s)

(* parseAnsiCode(ptr, end): the value of the digit run at p and the offset *)
(* after it.                                                               *)
RECURSIVE ParseFrom(_, _)
ParseFrom(p, result) ==
    IF p < length /\ IsDigit(At(p))
    THEN ParseFrom(p + 1, result * 10 + (At(p) - Digit0))
    ELSE [val |-> result, ptr |-> p]

parseAnsiCode(p) == ParseFrom(p, 0)

HasSemi(p) == p < length /\ At(p) = SEMI

(* The truecolor components are packed as blue, green, red. *)
ExtendedColorBgr(p, color) ==
    LET type == parseAnsiCode(p)
    IN  IF type.val = 5 /\ HasSemi(type.ptr) THEN
            LET n == parseAnsiCode(type.ptr + 1)
            IN  [ptr |-> n.ptr, color |-> ansi256ToRgb(n.val)]
        ELSE IF type.val = 2 THEN
            IF HasSemi(type.ptr) THEN
                LET r == parseAnsiCode(type.ptr + 1)
                IN  IF HasSemi(r.ptr) THEN
                        LET g == parseAnsiCode(r.ptr + 1)
                        IN  IF HasSemi(g.ptr) THEN
                                LET b == parseAnsiCode(g.ptr + 1)
                                IN  [ptr |-> b.ptr,
                                     color |-> IM_COL32(b.val, g.val, r.val, 255)]
                            ELSE [ptr |-> g.ptr, color |-> color]
                    ELSE [ptr |-> r.ptr, color |-> color]
            ELSE [ptr |-> type.ptr, color |-> color]
        ELSE [ptr |-> type.ptr, color |-> color]

(* Lines 202-227: the parameters that follow a 38 whose ';' is at p - 1. *)
ExtendedColor(p, color) ==
    LET type == parseAnsiCode(p)
    IN  IF type.val = 5 /\ HasSemi(type.ptr) THEN
            LET n == parseAnsiCode(type.ptr + 1)
            IN  [ptr |-> n.ptr, color |-> ansi256ToRgb(n.val)]
        ELSE IF type.val = 2 THEN
            IF HasSemi(type.ptr) THEN
                LET r == parseAnsiCode(type.ptr + 1)
                IN  IF HasSemi(r.ptr) THEN
                        LET g == parseAnsiCode(r.ptr + 1)
                        IN  IF HasSemi(g.ptr) THEN
                                LET b == parseAnsiCode(g.ptr + 1)
                                IN  [ptr |-> b.ptr,
                                     color |-> IM_COL32(r.val, g.val, b.val, 255)]
                            ELSE [ptr |-> g.ptr, color |-> color]
                    ELSE [ptr |-> r.ptr, color |-> color]
            ELSE [ptr |-> type.ptr, color |-> color]
        ELSE [ptr |-> type.ptr, color |-> color]

(* The bright codes 90..97 index the base half of the palette. *)
ApplyCodeBrightAsBase(p, color, bold) ==
    LET c == parseAnsiCode(p)
        code == c.val
    IN  IF code = 0 THEN [ptr |-> c.ptr, color |-> DEFAULT_COLOR, bold |-> FALSE]
        ELSE IF code = 1 THEN [ptr |-> c.ptr, color |-> color, bold |-> TRUE]
        ELSE IF code = 22 THEN [ptr |-> c.ptr, color |-> color, bold |-> FALSE]
        ELSE IF code >= 30 /\ code <= 37
            THEN [ptr |-> c.ptr, color |-> Palette(code - 30), bold |-> bold]
        ELSE IF code >= 90 /\ code <= 97
            THEN [ptr |-> c.ptr, color |-> Palette(code - 90), bold |-> bold]
        ELSE IF code = 38 /\ HasSemi(c.ptr) THEN
            LET e == ExtendedColor(c.ptr + 1, color)
            IN  [ptr |-> e.ptr, color |-> e.color, bold |-> bold]
        ELSE [ptr |-> c.ptr, color |-> color, bold |-> bold]

(* Lines 184-227: one parameter parsed at p and applied to the Style. *)
ApplyCode(p, color, bold) ==
    LET c == parseAnsiCode(p)
        code == c.val
    IN  IF code = 0 THEN [ptr |-> c.ptr, color |-> DEFAULT_COLOR, bold |-> FALSE]
        ELSE IF code = 1 THEN [ptr |-> c.ptr, color |-> color, bold |-> TRUE]
        ELSE IF code = 22 THEN [ptr |-> c.ptr, color |-> color, bold |-> FALSE]
        ELSE IF code >= 30 /\ code <= 37
            THEN [ptr |-> c.ptr, color |-> Palette(code - 30), bold |-> bold]
        ELSE IF code >= 90 /\ code <= 97
            THEN [ptr |-> c.ptr, color |-> Palette(code - 90 + 8), bold |-> bold]
        ELSE IF code = 38 /\ HasSemi(c.ptr) THEN
            LET e == ExtendedColor(c.ptr + 1, color)
            IN  [ptr |-> e.ptr, color |-> e.color, bold |-> bold]
        ELSE [ptr |-> c.ptr, color |-> color, bold |-> bold]

(* Line 230. *)
SkipSemi(p) == IF HasSemi(p) THEN p + 1 ELSE p

----------------------------------------------------------------------------
(* The layout cursor. *)
TextWidth(a, b) == CharWidth * (b - a)

(* The run is drawn in the default colour, whatever the Style. *)
RunInDefaultColor(a, b) == [start |-> a, stop |-> b, color |-> DEFAULT_COLOR, pos |-> pos]

(* drawList->AddText(pos, currentColor, segStart, current) *)
Run(a, b) == [start |-> a, stop |-> b, color |-> currentColor, pos |-> pos]

(* The pending sub-span is never drawn. *)
FlushedRunsDropped == runs

(* Lines 102-105 and their repetitions: the pending sub-span is drawn and *)
(* the pen advanced by its measured width.                                *)
FlushedRuns == IF current > segStart THEN Append(runs, Run(segStart, current)) ELSE runs
FlushedX == IF current > segStart THEN pos.x + TextWidth(segStart, current) ELSE pos.x

Max(a, b) == IF a >= b THEN a ELSE b

(* A pen that stands on a tab stop stays there. *)
NextTabStopCeiling(x) ==
    LET tabWidth == CharWidth * TabColumns
        currentColumn == x - X0
    IN  X0 + ((currentColumn + tabWidth - 1) \div tabWidth) * tabWidth

NextTabStop(x) ==
    LET tabWidth == CharWidth * TabColumns
        currentColumn == x - X0
    IN  X0 + ((currentColumn \div tabWidth) + 1) * tabWidth

(* The backspace is not clamped at the line start. *)
BackspacedUnclamped(x) == x - CharWidth

Backspaced(x) == Max(X0, x - CharWidth)

(* A newline is handled as a carriage return. *)
PenAfterControlNoLineFeed(c, x) ==
    IF c = LF THEN [x |-> X0, y |-> pos.y]
    ELSE IF c = CR THEN [x |-> X0, y |-> pos.y]
    ELSE IF c = TAB THEN [x |-> NextTabStop(x), y |-> pos.y]
    ELSE IF c = BS THEN [x |-> Backspaced(x), y |-> pos.y]
    ELSE [x |-> x, y |-> pos.y]

(* The pen after the control byte c, met with the pen's x at x (after the flush). *)
PenAfterControl(c, x) ==
    IF c = LF THEN [x |-> X0, y |-> pos.y + LineHeight]
    ELSE IF c = CR THEN [x |-> X0, y |-> pos.y]
    ELSE IF c = TAB THEN [x |-> NextTabStop(x), y |-> pos.y]
    ELSE IF c = BS THEN [x |-> Backspaced(x), y |-> pos.y]
    ELSE [x |-> x, y |-> pos.y]

(* ESC is handled as the other bytes below 0x20. *)
IsControlWithEsc(c) == c = LF \/ c = CR \/ c = TAB \/ c = BS \/ c < FirstPrintable

(* The tab branch is missing. *)
IsControlButTab(c) == c = LF \/ c = CR \/ c = BS \/ (c < FirstPrintable /\ c # ESC /\ c # TAB)

IsControl(c) == c = LF \/ c = CR \/ c = TAB \/ c = BS \/ (c < FirstPrintable /\ c # ESC)

(* A trailing newline advances the pen also after a carriage return. *)
TrailingCorrectionAlways(p) ==
    IF length > 0 THEN
        IF At(length - 1) = LF THEN [x |-> X0, y |-> p.y + LineHeight]
        ELSE IF At(length - 1) = CR THEN [x |-> X0, y |-> p.y]
        ELSE p
    ELSE p

(* Lines 247-257. *)
TrailingCorrection(p) ==
    IF length > 0 THEN
        IF At(length - 1) = LF THEN
            [x |-> X0,
             y |-> IF length = 1 \/ At(length - 2) # CR THEN p.y + LineHeight ELSE p.y]
        ELSE IF At(length - 1) = CR THEN [x |-> X0, y |-> p.y]
        ELSE p
    ELSE p

----------------------------------------------------------------------------
(* Inputs. *)
Cat(s, t) == s \o t

(* The decimal digits of n >= 0, as the emitter of a log line writes them. *)
RECURSIVE Digits(_)
Digits(n) == IF n < 10 THEN << Digit0 + n >> ELSE Append(Digits(n \div 10), Digit0 + (n % 10))

RECURSIVE Join(_)
Join(ps) ==
    IF Len(ps) = 0 THEN << >>
    ELSE IF Len(ps) = 1 THEN Digits(ps[1])
    ELSE Cat(Cat(Digits(ps[1]), << SEMI >>), Join(Tail(ps)))

CSI == << ESC, LBRACKET >>

(* ESC [ p1 ; ... ; pn m *)
Sgr(ps) == Cat(Cat(CSI, Join(ps)), << LowerM >>)

(* Every byte string of at most MaxLen bytes over Alphabet: 1 is a digit, *)
(* K (75) a byte no SGR sequence holds, a (97) literal text.              *)
Alphabet == {NUL, BS, TAB, LF, CR, ESC, LBRACKET, LowerM, SEMI, 49, 75, 97}

RECURSIVE StringsUpTo(_)
StringsUpTo(n) ==
    IF n = 0 THEN {<< >>}
    ELSE LET shorter == StringsUpTo(n - 1)
         IN  shorter \cup {Append(s, c) : s \in {t \in shorter : Len(t) = n - 1}, c \in Alphabet}

ByteInputs == StringsUpTo(MaxLen)

(* Every concatenation of at most MaxTokens pieces of log text. *)
Tokens ==
    { << 97 >>, << LF >>, << CR >>, << TAB >>, << BS >>, << NUL >>, << ESC >>, CSI,
      Sgr(<< >>), Sgr(<< 0 >>), Sgr(<< 1 >>), Sgr(<< 31 >>) }

RECURSIVE TokenStrings(_)
TokenStrings(n) ==
    IF n = 0 THEN {<< >>}
    ELSE {Cat(s, t) : s \in TokenStrings(n - 1), t \in Tokens \cup {<< >>}}

TokenInputs == TokenStrings(MaxTokens)

(* The inputs the specification names. *)
RedXResetY == Cat(Cat(Sgr(<< 31 >>), << 88 >>), Cat(Sgr(<< 0 >>), << 89 >>))
MixedLine == Cat(Cat(<< 97, LF, ESC, 98 >>, Sgr(<< 31 >>)), << 99 >>)
Examples ==
    { RedXResetY,
      << ESC, LBRACKET, 51, 49, LF >>,
      Cat(Sgr(<< 1 >>), Sgr(<< 22 >>)),
      << 97, TAB, 98 >>,
      << 97, LF, 98 >>,
      << 120, ESC, 121 >>,
      MixedLine }

TextInputs == ByteInputs \cup TokenInputs \cup Examples

(* The SGR codes of the code table. *)
TableCodes == {0, 1, 22} \cup (30..37) \cup (90..97)

RECURSIVE ListsUpTo(_, _)
ListsUpTo(S, n) ==
    IF n = 0 THEN {<< >>}
    ELSE LET shorter == ListsUpTo(S, n - 1)
         IN  shorter \cup {Append(l, x) : l \in {m \in shorter : Len(m) = n - 1}, x \in S}

BoldRed == Sgr(<< 1, 31 >>)
Letter == << 97 >>

(* One sequence of 1..MaxParams table codes, after nothing or after ESC[1;31m. *)
TableInputs ==
    {Cat(Cat(pre, Sgr(ps)), Letter) :
        pre \in {<< >>, BoldRed}, ps \in ListsUpTo(TableCodes, MaxParams) \ {<< >>}}

Index256Input(n) == Cat(Sgr(<< 38, 5, n >>), Letter)
Index256Inputs == {Index256Input(n) : n \in 0..255}

ChannelValues == {0, 10, 20, 30, 128, 255}
TrueColorInput(chans, tail) == Cat(Cat(Sgr(<< 31 >>), Sgr(Cat(<< 38, 2 >>, chans))), tail)
TrueColorInputs ==
    {TrueColorInput(chans, Letter) : chans \in ListsUpTo(ChannelValues, 3)}

(* ESC[1;31m, then a sequence of up to three fields, each empty, 1 or 31. *)
RECURSIVE JoinFields(_)
JoinFields(fs) ==
    IF Len(fs) = 0 THEN << >>
    ELSE IF Len(fs) = 1 THEN fs[1]
    ELSE Cat(Cat(fs[1], << SEMI >>), JoinFields(Tail(fs)))

Fields == {<< >>, Digits(1), Digits(31)}
FieldInput(fs) == Cat(Cat(BoldRed, Cat(Cat(CSI, JoinFields(fs)), << LowerM >>)), Letter)
FieldInputs == {FieldInput(fs) : fs \in ListsUpTo(Fields, 3) \ {<< >>}}

(* One sequence of 1..MaxParams codes, some of no row of the code table *)
(* (4, 99, and 38 with no 5 or 2 behind it), after nothing or after     *)
(* ESC[1;31m.                                                           *)
UnknownCodes == {4, 38, 99}
MixedCodes == {0, 1, 31} \cup UnknownCodes
UnknownInput(pre, ps) == Cat(Cat(pre, Sgr(ps)), Letter)
UnknownInputs ==
    {UnknownInput(pre, ps) :
        pre \in {<< >>, BoldRed},
        ps \in {l \in ListsUpTo(MixedCodes, MaxParams) :
                   \E k \in 1..Len(l) : l[k] \in UnknownCodes}}

(* Truecolor components and palette indices above 255. *)
WideChannelValues == {0, 255, 256, 300}
WideTriples == {<< r, g, b >> : r \in WideChannelValues, g \in WideChannelValues, b \in WideChannelValues}
WideTrueColorInputs == {TrueColorInput(chans, Letter) : chans \in WideTriples}
WideIndices == 256..260
WideIndexInputs == {Index256Input(n) : n \in WideIndices}

SgrInputs ==
    TableInputs \cup Index256Inputs \cup TrueColorInputs \cup FieldInputs \cup UnknownInputs
        \cup WideTrueColorInputs \cup WideIndexInputs

(* length == 0 asks for strlen: exercised on the short buffers. *)
LengthArgs(t) == IF Len(t) <= MaxLen THEN {0, Len(t)} ELSE {Len(t)}

Origin == [x |-> X0, y |-> Y0]

InitCall(inputs) ==
    /\ text \in inputs
    /\ isNull \in BOOLEAN
    /\ isNull => text = << >>
    /\ lenArg \in LengthArgs(text)
    /\ length = 0
    /\ ptr = 0
    /\ segmentStart = 0
    /\ currentColor = DEFAULT_COLOR
    /\ currentBold = FALSE
    /\ pos = Origin
    /\ segStart = 0
    /\ current = 0
    /\ segEnd = 0
    /\ ret = "scan"
    /\ runs = << >>
    /\ cursor = Origin
    /\ pc = "call"

Init == InitCall(TextInputs)

InitSgr == InitCall(SgrInputs)

----------------------------------------------------------------------------
(* Lines 76-92. *)
Enter ==
    /\ pc = "call"
    /\ IF isNull
       THEN /\ pc' = "done"
            /\ UNCHANGED << length, pos >>
       ELSE /\ length' = IF lenArg = 0 THEN strlen(text) ELSE lenArg
            /\ pos' = cursor
            /\ pc' = "scan"
    /\ ptr' = 0
    /\ segmentStart' = 0
    /\ currentColor' = DEFAULT_COLOR
    /\ currentBold' = FALSE
    /\ UNCHANGED << text, isNull, lenArg, segStart, current, segEnd, ret, runs, cursor >>

AtEscape == ptr < length /\ At(ptr) = ESC /\ ptr + 1 < length /\ At(ptr + 1) = LBRACKET

(* renderTextSegment(segmentStart, ptr) is entered, to return to r. *)
CallSegment(r) ==
    /\ segStart' = segmentStart
    /\ current' = segmentStart
    /\ segEnd' = ptr
    /\ ret' = r
    /\ pc' = "seg"
    /\ UNCHANGED << ptr >>

(* Lines 173-180: `ESC [` met; the pending segment is rendered first. *)
ScanEscape ==
    /\ pc = "scan"
    /\ AtEscape
    /\ IF ptr > segmentStart
       THEN CallSegment("esc")
       ELSE /\ ptr' = ptr + 2
            /\ pc' = "esc"
            /\ UNCHANGED << segStart, current, segEnd, ret >>
    /\ UNCHANGED << text, isNull, lenArg, length, segmentStart, currentColor,
                    currentBold, pos, runs, cursor >>

(* Lines 237-239. *)
ScanLiteral ==
    /\ pc = "scan"
    /\ ptr < length
    /\ ~AtEscape
    /\ ptr' = ptr + 1
    /\ UNCHANGED << text, isNull, lenArg, length, segmentStart, currentColor,
                    currentBold, pos, segStart, current, segEnd, ret, runs, cursor, pc >>

(* Lines 242-245: the main loop is over; the final segment is rendered. *)
ScanEnd ==
    /\ pc = "scan"
    /\ ptr >= length
    /\ IF ptr > segmentStart
       THEN CallSegment("final")
       ELSE /\ pc' = "final"
            /\ UNCHANGED << ptr, segStart, current, segEnd, ret >>
    /\ UNCHANGED << text, isNull, lenArg, length, segmentStart, currentColor,
                    currentBold, pos, runs, cursor >>

(* The sub-span start is not moved past a control byte. *)
SegStepKeepsStart ==
    /\ pc = "seg"
    /\ current < segEnd
    /\ IF IsControl(At(current))
       THEN /\ runs' = FlushedRuns
            /\ pos' = PenAfterControl(At(current), FlushedX)
            /\ current' = current + 1
            /\ UNCHANGED segStart
       ELSE /\ current' = current + 1
            /\ UNCHANGED << runs, pos, segStart >>
    /\ UNCHANGED << text, isNull, lenArg, length, ptr, segmentStart, currentColor,
                    currentBold, segEnd, ret, cursor, pc >>

(* Lines 99-161: one iteration of the inner loop of renderTextSegment. *)
SegStep ==
    /\ pc = "seg"
    /\ current < segEnd
    /\ IF IsControl(At(current))
       THEN /\ runs' = FlushedRuns
            /\ pos' = PenAfterControl(At(current), FlushedX)
            /\ segStart' = current + 1
            /\ current' = current + 1
       ELSE /\ current' = current + 1
            /\ UNCHANGED << runs, pos, segStart >>
    /\ UNCHANGED << text, isNull, lenArg, length, ptr, segmentStart, currentColor,
                    currentBold, segEnd, ret, cursor, pc >>

(* Lines 163-168 and the return to the caller (line 180 after line 176). *)
SegReturn ==
    /\ pc = "seg"
    /\ current >= segEnd
    /\ runs' = FlushedRuns
    /\ pos' = [x |-> FlushedX, y |-> pos.y]
    /\ pc' = ret
    /\ ptr' = IF ret = "esc" THEN ptr + 2 ELSE ptr
    /\ UNCHANGED << text, isNull, lenArg, length, segmentStart, currentColor,
                    currentBold, segStart, current, segEnd, ret, cursor >>

InSequence == ptr < length /\ At(ptr) # LowerM

(* Lines 183-231: one iteration of the parameter loop. *)
EscapeCode ==
    /\ pc = "esc"
    /\ InSequence
    /\ LET s == ApplyCode(ptr, currentColor, currentBold)
       IN  /\ ptr' = SkipSemi(s.ptr)
           /\ currentColor' = s.color
           /\ currentBold' = s.bold
    /\ UNCHANGED << text, isNull, lenArg, length, segmentStart, pos, segStart,
                    current, segEnd, ret, runs, cursor, pc >>

(* The segment start is moved only past a terminating `m`. *)
EscapeEndKeepsSequence ==
    /\ pc = "esc"
    /\ ~InSequence
    /\ LET p == IF ptr < length /\ At(ptr) = LowerM THEN ptr + 1 ELSE ptr
       IN  /\ ptr' = p
           /\ segmentStart' = IF p > ptr THEN p ELSE segmentStart
    /\ pc' = "scan"
    /\ UNCHANGED << text, isNull, lenArg, length, currentColor, currentBold, pos,
                    segStart, current, segEnd, ret, runs, cursor >>

(* Lines 233-236. *)
EscapeEnd ==
    /\ pc = "esc"
    /\ ~InSequence
    /\ LET p == IF ptr < length /\ At(ptr) = LowerM THEN ptr + 1 ELSE ptr
       IN  /\ ptr' = p
           /\ segmentStart' = p
    /\ pc' = "scan"
    /\ UNCHANGED << text, isNull, lenArg, length, currentColor, currentBold, pos,
                    segStart, current, segEnd, ret, runs, cursor >>

(* Lines 247-258. *)
Finish ==
    /\ pc = "final"
    /\ pos' = TrailingCorrection(pos)
    /\ cursor' = pos'
    /\ pc' = "done"
    /\ UNCHANGED << text, isNull, lenArg, length, ptr, segmentStart, currentColor,
                    currentBold, segStart, current, segEnd, ret, runs >>

Next ==
    \/ Enter
    \/ ScanEscape
    \/ ScanLiteral
    \/ ScanEnd
    \/ SegStep
    \/ SegReturn
    \/ EscapeCode
    \/ EscapeEnd
    \/ Finish

Spec == Init /\ [][Next]_vars

SpecSgr == InitSgr /\ [][Next]_vars

(* The call runs on one thread that is never suspended. *)
FairSpec == Spec /\ WF_vars(Next)

----------------------------------------------------------------------------
(* Claims. *)

Done == pc = "done"
Called == ~isNull
Default == [color |-> DEFAULT_COLOR, bold |-> FALSE]
Style == [color |-> currentColor, bold |-> currentBold]

(* C1: for every finite input buffer RenderAnsiText terminates: a call   *)
(* that has not returned can always take a step that changes its state,  *)
(* also inside an `ESC [` sequence that holds a byte other than a digit, *)
(* `;` or `m`.                                                           *)
C1_Terminates == Done \/ ENABLED <<Next>>_vars

(* C1, as a property of whole runs under FairSpec: every call returns. *)
C1_EventuallyReturns == <>Done

(* C2 as claimed: a call with a null buffer or with length zero emits no *)
(* run and leaves the cursor at the origin, whatever the buffer holds.   *)
C2_ZeroLengthIsNoOp ==
    (Done /\ (isNull \/ lenArg = 0)) => (runs = << >> /\ cursor = Origin)

(* C2 as amended: a call with a null buffer, or with length zero on a    *)
(* buffer whose first byte is the terminating NUL, emits no run and      *)
(* leaves pen and cursor at the origin, in every state of the call.      *)
EmptyCString == text = << >> \/ text[1] = NUL
C2_EmptyIsNoOp ==
    (isNull \/ (lenArg = 0 /\ EmptyCString))
        => (runs = << >> /\ cursor = Origin /\ pos = Origin)

C2_Witness == Done /\ Called /\ lenArg = 0 /\ Len(text) > 1 /\ text[1] = NUL

(* The code table of the specification, as the effect of one code on a Style. *)
TableEffect(st, code) ==
    IF code = 0 THEN Default
    ELSE IF code = 1 THEN [st EXCEPT !.bold = TRUE]
    ELSE IF code = 22 THEN [st EXCEPT !.bold = FALSE]
    ELSE IF code \in 30..37 THEN [st EXCEPT !.color = ANSI_COLORS[(code - 30) + 1]]
    ELSE IF code \in 90..97 THEN [st EXCEPT !.color = ANSI_COLORS[(code - 90 + 8) + 1]]
    ELSE st

RECURSIVE FoldCodes(_, _)
FoldCodes(st, codes) ==
    IF Len(codes) = 0 THEN st ELSE FoldCodes(TableEffect(st, codes[1]), Tail(codes))

BoldRedStyle == [color |-> ANSI_COLORS[2], bold |-> TRUE]

(* C3 as claimed: a parameter with zero digits is code 0, before `;` and *)
(* before `m`: after ESC[1;31m, a sequence of fields each empty, 1 or 31 *)
(* leaves the Style that the fold of its codes gives, an empty field     *)
(* counting as 0 (so ESC[m and ESC[31;m leave the default Style).        *)
FieldCode(f) == IF f = << >> THEN 0 ELSE IF f = Digits(1) THEN 1 ELSE 31
FieldCodes(fs) == [i \in 1..Len(fs) |-> FieldCode(fs[i])]
C3_EmptyParamIsReset ==
    \A fs \in ListsUpTo(Fields, 3) \ {<< >>} :
        (Done /\ text = FieldInput(fs)) => Style = FoldCodes(BoldRedStyle, FieldCodes(fs))

(* C4 as claimed: an input with no ESC byte and no byte below 0x20 is   *)
(* emitted as exactly one run: the whole input, in the default colour,  *)
(* at the origin.                                                       *)
Plain == \A i \in 1..Len(text) : text[i] >= FirstPrintable
WholeRun == [start |-> 0, stop |-> Len(text), color |-> DEFAULT_COLOR, pos |-> Origin]
C4_PlainIsOneRun == (Done /\ Called /\ Plain) => runs = << WholeRun >>

(* C4 as amended: a non-empty input with no ESC byte and no byte below  *)
(* 0x20 is emitted as exactly one run: the whole input, in the default  *)
(* colour, at the origin.                                               *)
C4_NonEmptyPlainIsOneRun ==
    (Done /\ Called /\ Plain /\ Len(text) > 0) => runs = << WholeRun >>

C4_Witness == Done /\ Called /\ Plain /\ Len(text) = MaxLen /\ Len(runs) = 1

(* The bytes of `ESC [` sequences, as 1-based indexes of s: `ESC [`, the *)
(* digits and `;` that follow, and the `m` that ends them.               *)
RECURSIVE ParamsEnd(_, _)
ParamsEnd(s, i) ==
    IF i <= Len(s) /\ (IsDigit(s[i]) \/ s[i] = SEMI) THEN ParamsEnd(s, i + 1) ELSE i

RECURSIVE EscapeBytesFrom(_, _)
EscapeBytesFrom(s, i) ==
    IF i > Len(s) THEN {}
    ELSE IF s[i] = ESC /\ i + 1 <= Len(s) /\ s[i + 1] = LBRACKET THEN
        LET j == ParamsEnd(s, i + 2)
            last == IF j <= Len(s) /\ s[j] = LowerM THEN j ELSE j - 1
        IN  (i..last) \cup EscapeBytesFrom(s, last + 1)
    ELSE EscapeBytesFrom(s, i + 1)

Buffer == SubSeq(text, 1, length)
EscapeBytes == EscapeBytesFrom(Buffer, 1)
RunBytes(r) == (r.start + 1)..r.stop

(* C5 as claimed: no run holds a byte below 0x20 and no run holds a     *)
(* byte of an `ESC [` sequence.                                         *)
C5_RunsHoldNoControl ==
    \A k \in 1..Len(runs) : \A i \in RunBytes(runs[k]) :
        text[i] >= FirstPrintable /\ i \notin EscapeBytes

(* C5 as amended: no run holds a byte below 0x20 other than an ESC that *)
(* does not start an `ESC [` sequence, and no run holds a byte of an    *)
(* `ESC [` sequence.                                                    *)
C5_RunsHoldNoControlButEsc ==
    \A k \in 1..Len(runs) : \A i \in RunBytes(runs[k]) :
        (text[i] >= FirstPrintable \/ text[i] = ESC) /\ i \notin EscapeBytes

C5_Witness ==
    /\ Done
    /\ Len(runs) >= 2
    /\ EscapeBytes # {}
    /\ \E i \in 1..Len(text) : text[i] = LF
    /\ \E k \in 1..Len(runs) : \E i \in RunBytes(runs[k]) : text[i] = ESC

(* The Style the specification gives after the bytes of s: the fold of   *)
(* the code table over the parameters of every `ESC [ ... m` sequence of *)
(* s, left to right from st.  ok says that every sequence of s is        *)
(* complete and holds only non-empty parameters of the code table.       *)
RECURSIVE DecimalOf(_)
DecimalOf(ds) ==
    IF Len(ds) = 0 THEN 0
    ELSE 10 * DecimalOf(SubSeq(ds, 1, Len(ds) - 1)) + (ds[Len(ds)] - Digit0)

RECURSIVE SplitFields(_)
SplitFields(body) ==
    IF \E i \in 1..Len(body) : body[i] = SEMI THEN
        LET i == CHOOSE k \in 1..Len(body) :
                     body[k] = SEMI /\ \A j \in 1..(k - 1) : body[j] # SEMI
        IN  << SubSeq(body, 1, i - 1) >> \o SplitFields(SubSeq(body, i + 1, Len(body)))
    ELSE << body >>

RECURSIVE ExpectedStyleFrom(_, _, _)
ExpectedStyleFrom(s, i, st) ==
    IF i > Len(s) THEN [ok |-> TRUE, style |-> st]
    ELSE IF s[i] = ESC /\ i + 1 <= Len(s) /\ s[i + 1] = LBRACKET THEN
        LET j == ParamsEnd(s, i + 2)
            fields == SplitFields(SubSeq(s, i + 2, j - 1))
            codes == [k \in 1..Len(fields) |-> DecimalOf(fields[k])]
        IN  IF /\ j <= Len(s)
               /\ s[j] = LowerM
               /\ \A k \in 1..Len(fields) : fields[k] # << >> /\ codes[k] \in TableCodes
            THEN ExpectedStyleFrom(s, j + 1, FoldCodes(st, codes))
            ELSE [ok |-> FALSE, style |-> st]
    ELSE ExpectedStyleFrom(s, i + 1, st)

ExpectedStyle(s) == ExpectedStyleFrom(s, 1, Default)

(* C6: every run is emitted in the colour that the SGR sequences lying   *)
(* entirely before its first byte give, applied left to right (text      *)
(* pending at an `ESC [` is flushed in the style in effect before it);   *)
(* ESC[31m X ESC[0m Y yields exactly two runs, X in palette colour 1 and *)
(* Y in the default colour.                                              *)
RunColourFromPrefix(r) ==
    LET e == ExpectedStyle(SubSeq(text, 1, r.start))
    IN  e.ok => r.color = e.style.color

C6_ColourFromPrecedingSequences ==
    /\ \A k \in 1..Len(runs) : RunColourFromPrefix(runs[k])
    /\ (Done /\ text = RedXResetY) =>
           /\ Len(runs) = 2
           /\ runs[1].start = 5 /\ runs[1].stop = 6 /\ runs[1].color = ANSI_COLORS[2]
           /\ runs[2].start = 10 /\ runs[2].stop = 11 /\ runs[2].color = DEFAULT_COLOR

C6_Witness ==
    /\ Done
    /\ text = RedXResetY
    /\ Len(runs) = 2
    /\ runs[1].color # runs[2].color

(* C7: after a complete SGR sequence whose parameters are all codes of   *)
(* the table, the Style is the left-to-right fold of the code table over *)
(* its parameters, from the Style before the sequence (the default, or   *)
(* bold palette 1 after ESC[1;31m); the text that follows is drawn in    *)
(* that colour.                                                          *)
C7_StyleIsFoldOfTable ==
    (Done /\ text \in TableInputs) =>
        LET e == ExpectedStyle(text)
        IN  /\ e.ok
            /\ Style = e.style
            /\ Len(runs) = 1
            /\ runs[1].color = e.style.color

C7_Witness ==
    /\ Done
    /\ text = Cat(Cat(BoldRed, Sgr(<< 1, 22 >>)), Letter)
    /\ Style = [color |-> ANSI_COLORS[2], bold |-> FALSE]

(* C8 as claimed: every run handed to the sink carries the bold flag of  *)
(* the Style in effect when it is emitted (true after ESC[1m, false      *)
(* after ESC[22m or ESC[0m).  A run handed over without a flag is drawn  *)
(* in the regular face.                                                  *)
RunBold(r) == IF "bold" \in DOMAIN r THEN r.bold ELSE FALSE
C8_RunsCarryBold ==
    [][Len(runs') > Len(runs) => RunBold(runs'[Len(runs')]) = currentBold]_vars

(* C9: for every N in 0..255, ESC[38;5;Nm sets the foreground to palette *)
(* entry N when N < 16, to the cube value (51r, 51g, 51b) with           *)
(* N - 16 = 36r + 6g + b and r, g, b in 0..5 when 16 <= N <= 231, and to *)
(* the gray (v, v, v) with v = 8 + 10(N - 232) when N >= 232; the text   *)
(* that follows is drawn in that colour.                                 *)
Opaque(r, g, b) == [r |-> r, g |-> g, b |-> b, a |-> 255]
Indexed(n) ==
    IF n < 16 THEN ANSI_COLORS[n + 1]
    ELSE IF n <= 231 THEN
        LET t == CHOOSE c \in (0..5) \X (0..5) \X (0..5) :
                     n - 16 = c[1] * 36 + c[2] * 6 + c[3]
        IN  Opaque(51 * t[1], 51 * t[2], 51 * t[3])
    ELSE Opaque(8 + 10 * (n - 232), 8 + 10 * (n - 232), 8 + 10 * (n - 232))

C9_IndexedColour ==
    (Done /\ text \in Index256Inputs) =>
        \A n \in 0..255 :
            text = Index256Input(n) =>
                /\ currentColor = Indexed(n)
                /\ Len(runs) = 1
                /\ runs[1].color = Indexed(n)

C9_Witness == Done /\ text = Index256Input(21) /\ currentColor = Opaque(0, 0, 255)

(* C10: for R, G, B in 0..255 the complete sequence ESC[38;2;R;G;Bm sets *)
(* the foreground to exactly (R, G, B), opaque; a truecolor sequence     *)
(* that ends with fewer than three components leaves the foreground (set *)
(* to palette 1 by a preceding ESC[31m) unchanged.                       *)
TrueColour(chans) ==
    IF Len(chans) = 3 THEN Opaque(chans[1], chans[2], chans[3]) ELSE ANSI_COLORS[2]

C10_TrueColour ==
    (Done /\ text \in TrueColorInputs) =>
        \A chans \in ListsUpTo(ChannelValues, 3) :
            text = TrueColorInput(chans, Letter) =>
                /\ currentColor = TrueColour(chans)
                /\ Len(runs) = 1
                /\ runs[1].color = TrueColour(chans)

C10_Witness ==
    /\ Done
    /\ text = TrueColorInput(<< 10, 20, 30 >>, Letter)
    /\ currentColor = Opaque(10, 20, 30)

(* C11: a tab byte moves pen.x to x0 + k*8W, the smallest multiple of 8W *)
(* strictly greater than the column the pen held before the tab (the    *)
(* pending text counted); for a TAB b the run b is emitted at x0 + 8W.  *)
PenColumn == (pos.x + CharWidth * (current - segStart)) - X0
StopAfter(col) ==
    CHOOSE stop \in 1..(col + 8 * CharWidth) :
        /\ stop % (8 * CharWidth) = 0
        /\ stop > col
        /\ \A other \in 1..(stop - 1) : ~(other % (8 * CharWidth) = 0 /\ other > col)
AtByte(c) == pc = "seg" /\ current < segEnd /\ At(current) = c
ATabB == << 97, TAB, 98 >>
C11_TabStops ==
    /\ [][AtByte(TAB) => (pos'.x = X0 + StopAfter(PenColumn) /\ pos'.y = pos.y)]_vars
    /\ []((Done /\ text = ATabB) =>
             (Len(runs) = 2 /\ runs[2].start = 2 /\ runs[2].pos.x = X0 + 8 * CharWidth))

C11_Witness ==
    /\ Done
    /\ text = << 97, TAB, TAB >>
    /\ pos.x = X0 + 16 * CharWidth

(* C12: a newline byte sets pen.x to x0 and adds one line height to     *)
(* pen.y, a carriage return sets pen.x to x0 and keeps pen.y; a run     *)
(* that follows k newline bytes is emitted at y0 + k*lineHeight, and    *)
(* for a LF b the run a is at (x0, y0) and b at (x0, y0 + lineHeight).  *)
NewlinesBefore(p) == Cardinality({i \in 1..p : text[i] = LF})
ALfB == << 97, LF, 98 >>
C12_NewlineAndReturn ==
    /\ [][AtByte(LF) => pos' = [x |-> X0, y |-> pos.y + LineHeight]]_vars
    /\ [][AtByte(CR) => pos' = [x |-> X0, y |-> pos.y]]_vars
    /\ [](\A k \in 1..Len(runs) :
             runs[k].pos.y = Y0 + LineHeight * NewlinesBefore(runs[k].start))
    /\ []((Done /\ text = ALfB) =>
             /\ Len(runs) = 2
             /\ runs[1].pos = Origin
             /\ runs[2].pos = [x |-> X0, y |-> Y0 + LineHeight])

C12_Witness ==
    /\ Done
    /\ text = ALfB
    /\ Len(runs) = 2
    /\ runs[2].pos.y = Y0 + LineHeight

(* C13: with non-negative widths, pen.x >= x0 in every state of a parse *)
(* and at every emitted run; a backspace sets pen.x to                  *)
(* max(x0, pen.x - W), the pending text counted, and never moves the    *)
(* pen left of x0.                                                      *)
Larger(a, b) == IF a < b THEN b ELSE a
C13_PenNeverLeftOfOrigin ==
    /\ [](pos.x >= X0 /\ cursor.x >= X0)
    /\ [](\A k \in 1..Len(runs) : runs[k].pos.x >= X0)
    /\ [][AtByte(BS) => pos'.x = Larger(X0, (PenColumn + X0) - CharWidth)]_vars

C13_Witness ==
    /\ Done
    /\ text = << 97, BS, BS >>
    /\ pos.x = X0

(* C14: the final pen is corrected from the last raw byte.  Its y is    *)
(* y0 + lineHeight * (n + c), n the number of newline bytes and c = 1   *)
(* exactly when the last byte is a newline not preceded by a carriage   *)
(* return; its x is x0 when the last byte is a newline or a carriage    *)
(* return.                                                              *)
LastIs(c) == length > 0 /\ text[length] = c
EndsWithBareNewline == LastIs(LF) /\ (length = 1 \/ text[length - 1] # CR)
C14_TrailingCorrection ==
    (Done /\ Called) =>
        /\ cursor.y = Y0 + LineHeight
                           * (NewlinesBefore(length) + (IF EndsWithBareNewline THEN 1 ELSE 0))
        /\ (LastIs(LF) \/ LastIs(CR)) => cursor.x = X0
        /\ cursor = pos

C14_Witness ==
    /\ Done
    /\ text = << 97, LF >>
    /\ cursor = [x |-> X0, y |-> Y0 + 2 * LineHeight]

(* The runs the specification gives for a buffer s whose sequences are   *)
(* complete and hold only codes of the table: one pass over s, the       *)
(* pending text flushed at every `ESC [` sequence, at every control byte *)
(* and at the end.  pen is the pen at the pending text's first byte,     *)
(* offset from.                                                           *)
ControlEffect(c, p) ==
    IF c = LF THEN [x |-> X0, y |-> p.y + LineHeight]
    ELSE IF c = CR THEN [x |-> X0, y |-> p.y]
    ELSE IF c = TAB THEN [x |-> X0 + StopAfter(p.x - X0), y |-> p.y]
    ELSE IF c = BS THEN [x |-> Larger(X0, p.x - CharWidth), y |-> p.y]
    ELSE p

RECURSIVE ExpectedRunsFrom(_, _, _, _, _, _)
ExpectedRunsFrom(s, i, st, pen, from, acc) ==
    LET pending == (i - 1) - from
        flushed == IF pending > 0
                   THEN Append(acc, [start |-> from, stop |-> i - 1,
                                     color |-> st.color, pos |-> pen])
                   ELSE acc
        after == [x |-> pen.x + CharWidth * pending, y |-> pen.y]
    IN  IF i > Len(s) THEN [runs |-> flushed, pen |-> after]
        ELSE IF s[i] = ESC /\ i + 1 <= Len(s) /\ s[i + 1] = LBRACKET THEN
            LET j == ParamsEnd(s, i + 2)
            IN  IF j <= Len(s) /\ s[j] = LowerM
                THEN ExpectedRunsFrom(s, j + 1,
                                      ExpectedStyleFrom(SubSeq(s, i, j), 1, st).style,
                                      after, j, flushed)
                ELSE [runs |-> flushed, pen |-> after]
        ELSE IF s[i] < FirstPrintable /\ s[i] # ESC
            THEN ExpectedRunsFrom(s, i + 1, st, ControlEffect(s[i], after), i, flushed)
        ELSE ExpectedRunsFrom(s, i + 1, st, pen, from, acc)

ExpectedRuns(s) == ExpectedRunsFrom(s, 1, Default, Origin, 0, << >>).runs

(* The buffer ends inside an `ESC [` sequence of digits and `;`. *)
Truncated(s) ==
    \E e \in 1..Len(s) :
        s[e] = ESC /\ e + 1 <= Len(s) /\ s[e + 1] = LBRACKET /\ ParamsEnd(s, e + 2) > Len(s)
TruncatedAt(s) ==
    CHOOSE e \in 1..Len(s) :
        s[e] = ESC /\ e + 1 <= Len(s) /\ s[e + 1] = LBRACKET /\ ParamsEnd(s, e + 2) > Len(s)
BeforeTruncated == SubSeq(Buffer, 1, TruncatedAt(Buffer) - 1)
AEscBracket == << 97, ESC, LBRACKET >>

(* C15: when the buffer ends inside an `ESC [` sequence of digits and    *)
(* `;` with no `m`, the call does not hang, no run holds a byte from     *)
(* that ESC to the end of the buffer, and the runs are those of the      *)
(* buffer cut before that ESC, in the style that preceded it; a ESC [    *)
(* gives the single run a.                                               *)
C15_TruncatedSequence ==
    /\ (Called /\ pc # "call" /\ Truncated(Buffer) /\ ExpectedStyle(BeforeTruncated).ok) =>
           /\ Done \/ ENABLED <<Next>>_vars
           /\ \A k \in 1..Len(runs) : runs[k].stop < TruncatedAt(Buffer)
           /\ Done => runs = ExpectedRuns(BeforeTruncated)
    /\ (Done /\ text = AEscBracket /\ length = 3) =>
           runs = << [start |-> 0, stop |-> 1, color |-> DEFAULT_COLOR, pos |-> Origin] >>

C15_Witness ==
    /\ Done
    /\ text = Sgr(<< 31 >>) \o << 97, ESC, LBRACKET >>
    /\ length = Len(text)
    /\ Len(runs) = 1
    /\ runs[1].color = ANSI_COLORS[2]
    /\ runs[1].stop = 6

(* C16: an ESC that is not followed by `[` inside the buffer, the last   *)
(* byte included, is ordinary text: it is in a run, the literal bytes    *)
(* next to it are in the same run, and the step over it moves neither    *)
(* the pen nor the runs (it adds its width to the run that holds it);    *)
(* x ESC y is one run of three bytes.                                    *)
LoneEsc(i) == text[i] = ESC /\ ~(i + 1 <= length /\ text[i + 1] = LBRACKET)
Literal(i) == i \notin EscapeBytes /\ (text[i] >= FirstPrintable \/ text[i] = ESC)
XEscY == << 120, ESC, 121 >>
C16_LoneEscIsText ==
    /\ []((Done /\ Called) =>
             \A i \in 1..length : LoneEsc(i) =>
                 \E k \in 1..Len(runs) :
                     /\ i \in RunBytes(runs[k])
                     /\ (i > 1 /\ Literal(i - 1)) => (i - 1) \in RunBytes(runs[k])
                     /\ (i < length /\ Literal(i + 1)) => (i + 1) \in RunBytes(runs[k]))
    /\ [][AtByte(ESC) => (pos' = pos /\ runs' = runs /\ segStart' = segStart)]_vars
    /\ []((Done /\ text = XEscY /\ length = 3) =>
             runs = << [start |-> 0, stop |-> 3, color |-> DEFAULT_COLOR, pos |-> Origin] >>)

C16_Witness ==
    /\ Done
    /\ text = XEscY
    /\ length = 3
    /\ Len(runs) = 1
    /\ cursor.x = X0 + 3 * CharWidth

(* C17: a code of no row of the table is ignored with no other effect:  *)
(* the Style after a complete sequence is the Style after the sequence   *)
(* without that code, that is the fold of the table over its other       *)
(* codes; so ESC[38;1m leaves the Style of ESC[1m and ESC[38;0m that of  *)
(* ESC[0m.                                                               *)
KnownOnly(ps) == SelectSeq(ps, LAMBDA c : c \notin UnknownCodes)
C17_UnknownCodeIgnored ==
    (Done /\ text \in UnknownInputs) =>
        \A pre \in {<< >>, BoldRed} : \A ps \in ListsUpTo(MixedCodes, MaxParams) :
            text = UnknownInput(pre, ps) =>
                Style = FoldCodes(IF pre = << >> THEN Default ELSE BoldRedStyle, KnownOnly(ps))

(* C18: where every `ESC [` sequence holds only digits and `;` up to its *)
(* `m` or the end of the buffer (the inputs on which the call returns),  *)
(* the runs are non-empty, their start offsets increase strictly and     *)
(* they do not overlap, and their texts, concatenated in emission order, *)
(* are the buffer without the bytes of its `ESC [` sequences (the one    *)
(* cut by the end of the buffer included) and without the bytes below    *)
(* 0x20 other than ESC.                                                  *)
RunText(r) == SubSeq(text, r.start + 1, r.stop)

RECURSIVE ConcatRuns(_)
ConcatRuns(rs) == IF Len(rs) = 0 THEN << >> ELSE RunText(rs[1]) \o ConcatRuns(Tail(rs))

RECURSIVE LiteralsFrom(_)
LiteralsFrom(i) ==
    IF i > length THEN << >>
    ELSE IF Literal(i) THEN << text[i] >> \o LiteralsFrom(i + 1)
    ELSE LiteralsFrom(i + 1)

C18_RunsAreTheLiteralText ==
    /\ \A k \in 1..Len(runs) : runs[k].start < runs[k].stop
    /\ \A k \in 1..(Len(runs) - 1) : runs[k].stop <= runs[k + 1].start
    /\ (Done /\ Called) => ConcatRuns(runs) = LiteralsFrom(1)

C18_Witness ==
    /\ Done
    /\ text = MixedLine
    /\ length = Len(text)
    /\ Len(runs) = 3
    /\ ConcatRuns(runs) = << 97, ESC, 98, 99 >>

(* The bytes of the complete `ESC [ ... m` sequences of s. *)
RECURSIVE CompleteBytesFrom(_, _)
CompleteBytesFrom(s, i) ==
    IF i > Len(s) THEN {}
    ELSE IF s[i] = ESC /\ i + 1 <= Len(s) /\ s[i + 1] = LBRACKET THEN
        LET j == ParamsEnd(s, i + 2)
        IN  IF j <= Len(s) /\ s[j] = LowerM
            THEN (i..j) \cup CompleteBytesFrom(s, j + 1)
            ELSE CompleteBytesFrom(s, j)
    ELSE CompleteBytesFrom(s, i + 1)

RECURSIVE Without(_, _, _)
Without(s, gone, i) ==
    IF i > Len(s) THEN << >>
    ELSE IF i \in gone THEN Without(s, gone, i + 1)
    ELSE << s[i] >> \o Without(s, gone, i + 1)

Stripped == Without(Buffer, CompleteBytesFrom(Buffer, 1), 1)
NoSequence(s) == \A i \in 1..(Len(s) - 1) : ~(s[i] = ESC /\ s[i + 1] = LBRACKET)

(* The final pen the specification gives for a buffer s: the pen after   *)
(* its last byte, corrected from its last bytes.                         *)
ExpectedPen(s) ==
    LET p == ExpectedRunsFrom(s, 1, Default, Origin, 0, << >>).pen
        n == Len(s)
    IN  IF n > 0 /\ s[n] = LF
        THEN [x |-> X0, y |-> IF n > 1 /\ s[n - 1] = CR THEN p.y ELSE p.y + LineHeight]
        ELSE IF n > 0 /\ s[n] = CR THEN [x |-> X0, y |-> p.y]
        ELSE p

(* C19: SGR sequences are layout-neutral: the final pen of a call is the *)
(* final pen of the same buffer with every complete `ESC [ ... m`        *)
(* sequence deleted (a LF ESC[0m ends where a LF ends).                  *)
C19_SgrLayoutNeutral ==
    (Done /\ Called /\ NoSequence(Stripped)) => cursor = ExpectedPen(Stripped)

(* C20: the foreground is always an opaque RGB value with independent    *)
(* channels: alpha is 255 in every state and in every run; after         *)
(* ESC[38;2;R;G;Bm, also with components above 255, a channel whose      *)
(* component is at most 255 holds that component whatever the other two  *)
(* are; after ESC[38;5;Nm with N >= 256 the three channels are equal.    *)
C20_ColourWellFormed ==
    /\ currentColor.a = 255
    /\ \A k \in 1..Len(runs) : runs[k].color.a = 255
    /\ (Done /\ text \in WideTrueColorInputs) =>
           \A chans \in WideTriples :
               text = TrueColorInput(chans, Letter) =>
                   /\ chans[1] <= 255 => currentColor.r = chans[1]
                   /\ chans[2] <= 255 => currentColor.g = chans[2]
                   /\ chans[3] <= 255 => currentColor.b = chans[3]
    /\ (Done /\ text \in WideIndexInputs) =>
           (currentColor.r = currentColor.g /\ currentColor.g = currentColor.b)

====
